---------------------------- MODULE Spec2Model ----------------------------
(***************************************************************************)
(* Job lifecycle of the PDF -> DOCX converter.                             *)
(*                                                                         *)
(*   backend/app/services/job_manager.py   JobManager (the in-memory store)*)
(*   backend/app/api/routes/convert.py     convert_pdf, batch_convert,     *)
(*                                         process_pdf (the pipeline)      *)
(*   backend/app/api/routes/jobs.py        cancel_job, retry_job           *)
(*   backend/app/services/pdf_service.py   analyze, extract_structure      *)
(*   backend/app/services/ocr/             get_ocr_provider, DeepSeekOCR   *)
(*                                                                         *)
(* Python values: None is the empty tuple, a present optional value v is   *)
(* the one-element tuple <<v>> (TLC compares tuples with tuples only).     *)
(***************************************************************************)
EXTENDS Integers, Sequences, FiniteSets, TLC

VARIABLES jobs, pc, upload, disk, nextId, now, reply, resp, keys, ocr_run, ret

vars == <<jobs, pc, upload, disk, nextId, now, reply, resp, keys, ocr_run, ret>>

(* the state of the job routes and of the pipeline *)
app_vars == <<jobs, pc, upload, disk, nextId, now, reply, resp, keys, ocr_run>>

-----------------------------------------------------------------------------
(* Bounds of the model *)

MaxJobs == 2

SmallPages == 2

LargePages == 21

MaxBatch == 2

MaxDocPages == 2

MaxTime == 2

MaxBlocks == 2

MaxTables == 1

(* Program constants *)

SYNC_PAGE_LIMIT == 20

PAGE_COUNT_ON_ERROR == 999

BATCH_CAP == 5

JobIds == 1..MaxJobs

-----------------------------------------------------------------------------
(* Python's None / a present value *)

None == << >>

Some(v) == <<v>>

(* models/schemas.py JobStatus: the enum has exactly these four members *)
PENDING == "pending"

PROCESSING == "processing"

COMPLETED == "completed"

FAILED == "failed"

JobStatus == {PENDING, PROCESSING, COMPLETED, FAILED}

(* The name jobs.py uses at line 90; JobStatus has no such member *)
CANCELLED == "cancelled"

HasMember(enum, name) == name \in enum

-----------------------------------------------------------------------------
(* Uploaded documents.  npages is what the decoder reports, ocr_pages the  *)
(* pages whose analysis says needs_ocr, corrupt a file the decoder cannot  *)
(* open, garbled the pages for whose image the OCR service answers with a  *)
(* payload that is not the JSON asked for.                                 *)

Doc(name, n, ocr, bad) == [filename |-> name, npages |-> n, ocr_pages |-> ocr, corrupt |-> bad, garbled |-> {}]

NativeSmall == Doc("a.pdf", SmallPages, {}, FALSE)

ScannedSmall == Doc("b.pdf", SmallPages, 1..SmallPages, FALSE)

NativeLarge == Doc("c.pdf", LargePages, {}, FALSE)

Corrupt == Doc("d.pdf", 0, {}, TRUE)

(* page 1 needs OCR and its OCR payload is garbled, the last page is text *)
GarbledMixed == [Doc("e.pdf", SmallPages, {1}, FALSE) EXCEPT !.garbled = {1}]

Docs == {NativeSmall, ScannedSmall, NativeLarge, Corrupt, GarbledMixed}

SettingsOf(ocr) == [ocr_enabled |-> ocr, ocr_provider |-> "auto", language |-> "auto"]

SettingsSet == {SettingsOf(TRUE), SettingsOf(FALSE)}

(* The uploads the model submits to the pipeline *)
Inputs == {<<NativeSmall, SettingsOf(TRUE)>>, <<ScannedSmall, SettingsOf(TRUE)>>, <<NativeLarge, SettingsOf(TRUE)>>, <<Corrupt, SettingsOf(TRUE)>>}

(* ... to the pipeline while jobs are deleted under it *)
DeleteInputs == {<<ScannedSmall, SettingsOf(TRUE)>>, <<Corrupt, SettingsOf(TRUE)>>}

(* ... to the pipeline under each configuration of the OCR keys *)
OcrInputs == {<<ScannedSmall, SettingsOf(TRUE)>>, <<GarbledMixed, SettingsOf(TRUE)>>, <<ScannedSmall, SettingsOf(FALSE)>>}

(* ... to the pipeline while the clock runs *)
CleanupInputs == {<<NativeSmall, SettingsOf(TRUE)>>}

(* ... to the pipeline while the job routes are called *)
RouteInputs == {<<NativeSmall, SettingsOf(TRUE)>>, <<Corrupt, SettingsOf(TRUE)>>}

-----------------------------------------------------------------------------
(* JobManager *)

OptionalFields == {"pages_total", "document_type", "download_url", "output_path", "completed_at", "processing_time_ms"}

(* JobManager.create_job: the record stored under job_id *)
NewJob(job_id, doc, settings_data, t) ==
    [ job_id            |-> job_id,
      status            |-> PENDING,
      progress          |-> 0,
      message           |-> <<"Queued">>,
      filename          |-> doc.filename,
      file_size         |-> 1,
      file_path         |-> <<"uploads", job_id, doc.filename>>,
      pages_total       |-> None,
      pages_processed   |-> 0,
      document_type     |-> None,
      download_url      |-> None,
      output_path       |-> None,
      created_at        |-> t,
      completed_at      |-> None,
      processing_time_ms |-> None,
      settings          |-> settings_data ]

(* self._jobs[job_id] = job *)
StorePut(store, job_id, job) == [k \in DOMAIN store \cup {job_id} |-> IF k = job_id THEN job ELSE store[k]]

(* del self._jobs[job_id] *)
StoreDel(store, job_id) == [k \in DOMAIN store \ {job_id} |-> store[k]]

(* update_job lines 67-69: a keyword is written when its value is not None *)
(* and the record has the key                                               *)
Written(job, kw, f) == f \in DOMAIN kw /\ kw[f] # None /\ f \in DOMAIN job

(* Merge with the message rewritten by every call *)
MergeTouchingMessage(job, kw) == [f \in DOMAIN job |-> IF Written(job, kw, f) THEN (IF f \in OptionalFields THEN kw[f] ELSE kw[f][1]) ELSE IF f = "message" THEN <<"Updated">> ELSE job[f]]

Merge(job, kw) == [f \in DOMAIN job |-> IF Written(job, kw, f) THEN (IF f \in OptionalFields THEN kw[f] ELSE kw[f][1]) ELSE job[f]]

(* StampsCompleted for the COMPLETED status alone *)
StampsOnCompletedOnly(kw) == "status" \in DOMAIN kw /\ kw["status"] = Some(COMPLETED)

(* update_job lines 72-73 *)
StampsCompleted(kw) == "status" \in DOMAIN kw /\ kw["status"] \in {Some(COMPLETED), Some(FAILED)}

Stamp(job, kw, t) == IF StampsCompleted(kw) THEN [job EXCEPT !.completed_at = Some(t)] ELSE job

(* UpdateJob storing a record for an id that is not in the store *)
UpdateJobInserting(store, job_id, kw, t) ==
    IF job_id \notin DOMAIN store
    THEN StorePut(store, job_id, Stamp(Merge(NewJob(job_id, NativeSmall, SettingsOf(TRUE), t), kw), kw, t))
    ELSE [store EXCEPT ![job_id] = Stamp(Merge(store[job_id], kw), kw, t)]

(* JobManager.update_job: the store after the call *)
UpdateJob(store, job_id, kw, t) ==
    IF job_id \notin DOMAIN store
    THEN store
    ELSE [store EXCEPT ![job_id] = Stamp(Merge(store[job_id], kw), kw, t)]


-----------------------------------------------------------------------------
(* Control state of the handler / pipeline run working on a job id.        *)
(*   at     : "free" (id unused), "created" (create_job has returned),     *)
(*            "queued" (background task added), "analyze", "setup",        *)
(*            "extract", "assemble", "docx" (inside process_pdf), "done"   *)
(*   mode   : how the current process_pdf call was made                    *)
(*   page   : page_num of extract_structure's loop                         *)
(*   ocr    : job_settings["ocr_enabled"] until the OCR set-up, afterwards *)
(*            whether an ocr_provider was set up                           *)
(*   result : what the last process_pdf call on the id returned            *)
(*   runs   : how many process_pdf calls were made on the id               *)

Ctl(at, mode, page, ocr, result, runs) == [at |-> at, mode |-> mode, page |-> page, ocr |-> ocr, result |-> result, runs |-> runs]

Free == Ctl("free", "none", 0, FALSE, "none", 0)

Running == {"analyze", "setup", "extract", "assemble", "docx"}

(* HTTP responses.  status is the ConvertResponse status, or None.  reply[j] *)
(* is the answer of the convert_pdf request working on job j, resp the      *)
(* answer of the last request to another route; request holds the files a   *)
(* submit route was sent, results the entries batch_convert answers         *)
Response(op, job, code, status) == [op |-> op, job |-> job, code |-> code, status |-> status, request |-> << >>, results |-> << >>]

NoResponse == Response("none", 0, 0, None)

Msg(text) == <<text>>

ErrorMsg(e) == <<"Error", e>>

(* convert.py get_page_count: 999 when the decoder cannot open the file *)
PageCount(doc) == IF doc.corrupt THEN PAGE_COUNT_ON_ERROR ELSE doc.npages

(* DocTypeOf with the two tests in the other order *)
DocTypeScannedFirst(pages_needing_ocr, total_pages) ==
    IF pages_needing_ocr = total_pages THEN "scanned"
    ELSE IF pages_needing_ocr = 0 THEN "native"
    ELSE "mixed"

(* pdf_service.py analyze, lines 184-191 *)
DocTypeOf(pages_needing_ocr, total_pages) ==
    IF pages_needing_ocr = 0 THEN "native"
    ELSE IF pages_needing_ocr = total_pages THEN "scanned"
    ELSE "mixed"

(* pdf_service.py analyze, lines 184-199 *)
DocumentType(doc) == DocTypeOf(Cardinality(doc.ocr_pages), doc.npages)

NeedsOcr(doc) == Cardinality(doc.ocr_pages) > 0

(* extract_structure line 274: int((page_num / len(doc)) * 100) *)
PagePercent(page_num, n) == (page_num * 100) \div n

(* Scaled without the offset of the extraction window *)
ScaledUnshifted(progress) == (progress * 6) \div 10

(* on_progress line 259: 20 + int(progress * 0.6) *)
Scaled(progress) == 20 + (progress * 6) \div 10

(* on_progress lines 257-261: writes the dict process_pdf fetched at line   *)
(* 217, which is the stored record for as long as the job is in the store   *)
OnProgress(store, job_id, progress, page) ==
    IF job_id \notin DOMAIN store
    THEN store
    ELSE [store EXCEPT ![job_id].progress = Scaled(progress), ![job_id].pages_processed = page]

-----------------------------------------------------------------------------
(* OCR providers.  keys is the set of providers whose API key is set in    *)
(* the configuration (config.py lines 29-30); ocr_run[j] is the provider   *)
(* of the current process_pdf call on job j and the process_image calls    *)
(* made in it, each <<page_number, outcome>>; ret is the value returned by *)
(* the last call of a service function made on its own                     *)

Providers == {"mistral", "deepseek", "surya"}

(* the providers whose classes (MistralOCR, SuryaOCR) are in modules not   *)
(* among the sources: they are taken as the specification describes them,  *)
(* constructed without error and returning a result with its elements      *)
ExternalProviders == {"mistral", "surya"}

(* GetOcrProvider with DeepSeek tried before Mistral *)
GetOcrProviderDeepSeekFirst(provider_type, configured) ==
    LET selected == IF provider_type = "auto"
                    THEN IF "deepseek" \in configured THEN "deepseek"
                         ELSE IF "mistral" \in configured THEN "mistral"
                         ELSE "surya"
                    ELSE provider_type
    IN  IF selected = "mistral" THEN "mistral"
        ELSE IF selected = "deepseek" THEN "deepseek"
        ELSE "surya"

(* factory.py get_ocr_provider: the provider whose class is instantiated *)
GetOcrProvider(provider_type, configured) ==
    LET selected == IF provider_type = "auto"
                    THEN IF "mistral" \in configured THEN "mistral"
                         ELSE IF "deepseek" \in configured THEN "deepseek"
                         ELSE "surya"
                    ELSE provider_type
    IN  IF selected = "mistral" THEN "mistral"
        ELSE IF selected = "deepseek" THEN "deepseek"
        ELSE "surya"

(* requested is job_settings["ocr_provider"] as process_pdf read it *)
OcrRun(requested, provider, calls) == [requested |-> requested, provider |-> provider, calls |-> calls]

NoOcr == OcrRun("auto", "none", << >>)

NoCall == [call |-> "none", args |-> << >>, value |-> << >>]

Init ==
    /\ jobs = << >>
    /\ pc = [j \in JobIds |-> Free]
    /\ upload = << >>
    /\ disk = {}
    /\ nextId = 0
    /\ now = 0
    /\ reply = [j \in JobIds |-> NoResponse]
    /\ resp = NoResponse
    /\ keys = {}
    /\ ocr_run = [j \in JobIds |-> NoOcr]
    /\ ret = NoCall

-----------------------------------------------------------------------------
(* JobManager.create_job, called as its signature asks (job_id, filename,  *)
(* file_size, file_path, settings_data) for an upload saved under a fresh  *)
(* job id (generate_job_id)                                                *)
CreateJob(doc, settings_data) ==
    /\ nextId < MaxJobs
    /\ nextId' = nextId + 1
    /\ upload' = StorePut(upload, nextId + 1, doc)
    /\ disk' = disk \cup {nextId + 1}
    /\ jobs' = StorePut(jobs, nextId + 1, NewJob(nextId + 1, doc, settings_data, now))
    /\ pc' = [pc EXCEPT ![nextId + 1] = Ctl("created", "none", 0, FALSE, "none", 0)]
    /\ UNCHANGED <<now, reply, resp, keys, ocr_run, ret>>

(* process_pdf lines 216-226: the entry of a pipeline run *)
StartRun(j, mode) ==
    IF j \notin DOMAIN jobs
    THEN /\ jobs' = jobs
         /\ pc' = [pc EXCEPT ![j] = IF mode = "inline"
                                     THEN Ctl("queued", "none", 0, FALSE, "notfound", pc[j].runs + 1)
                                     ELSE Ctl("done", "none", 0, FALSE, "notfound", pc[j].runs + 1)]
         /\ reply' = IF mode = "inline" THEN [reply EXCEPT ![j] = Response("convert", j, 200, Some(PENDING))] ELSE reply
         /\ ocr_run' = [ocr_run EXCEPT ![j] = NoOcr]
    ELSE /\ jobs' = UpdateJob(jobs, j, [status |-> Some(PROCESSING), message |-> Some(Msg("Analyzing PDF..."))], now)
         /\ pc' = [pc EXCEPT ![j] = Ctl("analyze", mode, 0, jobs[j].settings.ocr_enabled, "none", pc[j].runs + 1)]
         /\ reply' = reply
         /\ ocr_run' = [ocr_run EXCEPT ![j] = OcrRun(jobs[j].settings.ocr_provider, "none", << >>)]

(* convert_pdf lines 94-118, for the job create_job returned at line 82:   *)
(* a small file enters process_pdf inline, a large one is queued           *)
ConvertDispatch(j) ==
    /\ pc[j].at = "created"
    /\ IF PageCount(upload[j]) <= SYNC_PAGE_LIMIT
       THEN StartRun(j, "inline")
       ELSE /\ pc' = [pc EXCEPT ![j].at = "queued"]
            /\ reply' = [reply EXCEPT ![j] = Response("convert", j, 200, Some(PENDING))]
            /\ jobs' = jobs
            /\ ocr_run' = ocr_run
    /\ UNCHANGED <<upload, disk, nextId, now, resp, keys, ret>>

(* the background task added at convert.py line 112 or 175 runs *)
RunBackground(j) ==
    /\ pc[j].at = "queued"
    /\ StartRun(j, "background")
    /\ UNCHANGED <<upload, disk, nextId, now, resp, keys, ret>>

(* FailRun with the except clause returning without recording the failure *)
FailRunUnrecorded(j, store, e) ==
    /\ jobs' = store
    /\ pc' = [pc EXCEPT ![j] = IF pc[j].mode = "inline"
                                THEN Ctl("queued", "none", 0, FALSE, "failure", pc[j].runs)
                                ELSE Ctl("done", "none", 0, FALSE, "failure", pc[j].runs)]
    /\ reply' = IF pc[j].mode = "inline" THEN [reply EXCEPT ![j] = Response("convert", j, 200, Some(PENDING))] ELSE reply

(* process_pdf lines 296-302, and what convert_pdf does with the returned  *)
(* {"success": False}: line 98 is false, so control reaches line 112       *)
FailRun(j, store, e) ==
    /\ jobs' = UpdateJob(store, j, [status |-> Some(FAILED), message |-> Some(ErrorMsg(e))], now)
    /\ pc' = [pc EXCEPT ![j] = IF pc[j].mode = "inline"
                                THEN Ctl("queued", "none", 0, FALSE, "failure", pc[j].runs)
                                ELSE Ctl("done", "none", 0, FALSE, "failure", pc[j].runs)]
    /\ reply' = IF pc[j].mode = "inline" THEN [reply EXCEPT ![j] = Response("convert", j, 200, Some(PENDING))] ELSE reply

(* process_pdf lines 234-241 *)
Analyze(j) ==
    /\ pc[j].at = "analyze"
    /\ IF j \notin disk \/ upload[j].corrupt
       THEN FailRun(j, jobs, "analysis")
       ELSE /\ jobs' = UpdateJob(jobs, j, [pages_total |-> Some(upload[j].npages), document_type |-> Some(DocumentType(upload[j])), progress |-> Some(10)], now)
            /\ pc' = [pc EXCEPT ![j].at = "setup"]
            /\ reply' = reply
    /\ UNCHANGED <<upload, disk, nextId, now, resp, keys, ocr_run, ret>>

(* what provider.initialize() can do.  DeepSeekOCR.initialize (deepseek.py *)
(* lines 45-51) raises exactly when no API key is set; the classes of the  *)
(* other providers may raise (service or model unavailable) or return      *)
InitializeOutcomes(provider, configured) ==
    IF provider = "deepseek"
    THEN IF "deepseek" \in configured THEN {"ok"} ELSE {"raise"}
    ELSE {"ok", "raise"}

(* process_pdf lines 243-255: an OCR provider is set up when the job's     *)
(* settings enable OCR and the analysis needs it; get_ocr_provider or      *)
(* initialize may raise (no credentials, provider unavailable)             *)
Setup(j) ==
    /\ pc[j].at = "setup"
    /\ LET wants == pc[j].ocr /\ NeedsOcr(upload[j])
           provider == GetOcrProvider(ocr_run[j].requested, keys)
           named == UpdateJob(jobs, j, [message |-> Some(Msg("Using OCR..."))], now)
       IN  \/ /\ wants
              /\ "raise" \in InitializeOutcomes(provider, keys)
              /\ FailRun(j, jobs, "ocr_init")
              /\ ocr_run' = ocr_run
           \/ /\ wants => "ok" \in InitializeOutcomes(provider, keys)
              /\ jobs' = UpdateJob(IF wants THEN named ELSE jobs, j, [message |-> Some(Msg("Extracting content...")), progress |-> Some(20)], now)
              /\ pc' = [pc EXCEPT ![j].at = "extract", ![j].page = 0, ![j].ocr = wants]
              /\ reply' = reply
              /\ ocr_run' = [ocr_run EXCEPT ![j].provider = IF wants THEN provider ELSE "none"]
    /\ UNCHANGED <<upload, disk, nextId, now, resp, keys, ret>>

(* what provider.process_image(image) does for a page: it raises (the     *)
(* request fails or times out), or it returns a result, "parse_error" for *)
(* a payload that is not the JSON asked for (DeepSeekOCR._parse, lines    *)
(* 118-121: elements [], error "Parse error"), "ok" otherwise             *)
ProcessImageOutcomes(provider, doc, page_number) ==
    {"raise"} \cup (IF page_number \in doc.garbled THEN {"parse_error"} ELSE {"ok"})

(* what process_image returns: DeepSeekOCR returns a dict (deepseek.py    *)
(* lines 53, 94-99); the other providers return a result object with an   *)
(* elements attribute                                                     *)
ResultKind(provider) == IF provider \in ExternalProviders THEN "object" ELSE "dict"

(* _extract_with_ocr lines 424-431: the call raises, or the loop header    *)
(* reads ocr_result.elements, an attribute a dict does not have            *)
ExtractWithOcrRaises(provider, outcome) == outcome = "raise" \/ ResultKind(provider) = "dict"

(* extract_structure lines 262-288: one turn of the page loop.  The        *)
(* progress callback runs before the page is extracted.  A page sent to    *)
(* the OCR provider may raise (the provider call fails); the first turn    *)
(* raises before any callback when the upload is gone (analyze, line 262)  *)
ExtractPage(j) ==
    /\ pc[j].at = "extract"
    /\ pc[j].page < upload[j].npages
    /\ LET reported == OnProgress(jobs, j, PagePercent(pc[j].page, upload[j].npages), pc[j].page + 1)
           gone == pc[j].page = 0 /\ j \notin disk
           viaOcr == pc[j].ocr /\ (pc[j].page + 1) \in upload[j].ocr_pages
       IN  \/ /\ gone
              /\ FailRun(j, jobs, "extract")
              /\ ocr_run' = ocr_run
           \/ /\ ~gone /\ viaOcr
              /\ \E outcome \in ProcessImageOutcomes(ocr_run[j].provider, upload[j], pc[j].page + 1) :
                    /\ ocr_run' = [ocr_run EXCEPT ![j].calls = Append(@, <<pc[j].page + 1, outcome>>)]
                    /\ IF ExtractWithOcrRaises(ocr_run[j].provider, outcome)
                       THEN FailRun(j, reported, "extract")
                       ELSE /\ jobs' = reported
                            /\ pc' = [pc EXCEPT ![j].page = pc[j].page + 1]
                            /\ reply' = reply
           \/ /\ ~gone /\ ~viaOcr
              /\ jobs' = reported
              /\ pc' = [pc EXCEPT ![j].page = pc[j].page + 1]
              /\ reply' = reply
              /\ ocr_run' = ocr_run
    /\ UNCHANGED <<upload, disk, nextId, now, resp, keys, ret>>

(* extract_structure lines 290-308: the final callback on_progress(100, n) *)
ExtractFinish(j) ==
    /\ pc[j].at = "extract"
    /\ pc[j].page = upload[j].npages
    /\ jobs' = OnProgress(jobs, j, 100, upload[j].npages)
    /\ pc' = [pc EXCEPT ![j].at = "assemble"]
    /\ UNCHANGED <<upload, disk, nextId, now, reply, resp, keys, ocr_run, ret>>

(* process_pdf line 271 *)
EnterAssembly(j) ==
    /\ pc[j].at = "assemble"
    /\ jobs' = UpdateJob(jobs, j, [message |-> Some(Msg("Generating DOCX...")), progress |-> Some(85)], now)
    /\ pc' = [pc EXCEPT ![j].at = "docx"]
    /\ UNCHANGED <<upload, disk, nextId, now, reply, resp, keys, ocr_run, ret>>

(* CompleteRun with a final write of the status and the message alone *)
CompleteRunStatusOnly(j) ==
    /\ jobs' = UpdateJob(jobs, j, [status |-> Some(COMPLETED), message |-> Some(Msg("Completed"))], now)
    /\ pc' = [pc EXCEPT ![j] = Ctl("done", "none", 0, FALSE, "success", pc[j].runs)]
    /\ reply' = IF pc[j].mode = "inline" THEN [reply EXCEPT ![j] = Response("convert", j, 200, Some(COMPLETED))] ELSE reply

(* CompleteRun with a final write that carries no status *)
CompleteRunNoStatus(j) ==
    /\ jobs' = UpdateJob(jobs, j, [message |-> Some(Msg("Completed")), progress |-> Some(100), download_url |-> Some(<<"download", j>>), output_path |-> Some(<<"output", j>>), processing_time_ms |-> Some(1)], now)
    /\ pc' = [pc EXCEPT ![j] = Ctl("done", "none", 0, FALSE, "success", pc[j].runs)]
    /\ reply' = IF pc[j].mode = "inline" THEN [reply EXCEPT ![j] = Response("convert", j, 200, Some(COMPLETED))] ELSE reply

(* process_pdf lines 282-294, and convert_pdf lines 98-103 when the call   *)
(* was made inline                                                         *)
CompleteRun(j) ==
    /\ jobs' = UpdateJob(jobs, j, [status |-> Some(COMPLETED), message |-> Some(Msg("Completed")), progress |-> Some(100), download_url |-> Some(<<"download", j>>), output_path |-> Some(<<"output", j>>), processing_time_ms |-> Some(1)], now)
    /\ pc' = [pc EXCEPT ![j] = Ctl("done", "none", 0, FALSE, "success", pc[j].runs)]
    /\ reply' = IF pc[j].mode = "inline" THEN [reply EXCEPT ![j] = Response("convert", j, 200, Some(COMPLETED))] ELSE reply

(* process_pdf lines 273-294: docx_service.generate returns or raises *)
Generate(j) ==
    /\ pc[j].at = "docx"
    /\ \/ CompleteRun(j)
       \/ FailRun(j, jobs, "docx")
    /\ UNCHANGED <<upload, disk, nextId, now, resp, keys, ocr_run, ret>>

-----------------------------------------------------------------------------
(* JobManager.delete_job *)
DeleteJob(j) ==
    /\ IF j \notin DOMAIN jobs
       THEN UNCHANGED <<jobs, disk>>
       ELSE /\ disk' = disk \ {j}
            /\ jobs' = StoreDel(jobs, j)
    /\ UNCHANGED <<pc, upload, nextId, now, reply, resp, keys, ocr_run, ret>>

-----------------------------------------------------------------------------
(* The methods class JobManager defines (job_manager.py lines 15-139) *)
JobManagerMethods == {"create_job", "get_job", "get_raw_job", "update_job", "list_jobs", "delete_job", "cleanup_old_jobs", "_to_response"}

(* main.py lines 55-66: an exception no handler catches becomes a 500 *)
INTERNAL_ERROR == 500

NOT_FOUND == 404

CONFLICT == 409

BAD_REQUEST == 400

OK == 200

(* jobs.py cancel_job: the HTTP status of the answer.  Line 90 evaluates   *)
(* JobStatus.CANCELLED, line 95 calls job_manager.cancel_job               *)
CancelCode(store, j) ==
    IF j \notin DOMAIN store THEN NOT_FOUND
    ELSE IF ~HasMember(JobStatus, CANCELLED) THEN INTERNAL_ERROR
    ELSE IF store[j].status \in {COMPLETED, FAILED, CANCELLED} THEN CONFLICT
    ELSE IF "cancel_job" \notin JobManagerMethods THEN INTERNAL_ERROR
    ELSE OK

(* jobs.py cancel_job lines 78-104.  The route itself writes nothing; the  *)
(* one call that could, job_manager.cancel_job, names no method of         *)
(* JobManager                                                              *)
CancelRoute(j) ==
    /\ resp' = Response("cancel", j, CancelCode(jobs, j), None)
    /\ UNCHANGED <<jobs, pc, upload, disk, nextId, now, reply, keys, ocr_run, ret>>

(* RetryCode without the status check of line 157 *)
RetryCodeUnchecked(store, j) ==
    IF j \notin DOMAIN store THEN NOT_FOUND
    ELSE IF "retry_job" \notin JobManagerMethods THEN INTERNAL_ERROR
    ELSE OK

(* jobs.py retry_job: the HTTP status of the answer.  Line 158 answers 400 *)
(* for a job that is not FAILED, line 160 calls job_manager.retry_job      *)
RetryCode(store, j) ==
    IF j \notin DOMAIN store THEN NOT_FOUND
    ELSE IF store[j].status # FAILED THEN BAD_REQUEST
    ELSE IF "retry_job" \notin JobManagerMethods THEN INTERNAL_ERROR
    ELSE OK

(* jobs.py retry_job lines 144-170.  The route itself writes nothing; the  *)
(* one call that could, job_manager.retry_job, names no method of          *)
(* JobManager                                                              *)
RetryRoute(j) ==
    /\ resp' = Response("retry", j, RetryCode(jobs, j), None)
    /\ UNCHANGED <<jobs, pc, upload, disk, nextId, now, reply, keys, ocr_run, ret>>

-----------------------------------------------------------------------------
(* Uploads as the submit routes see them: the file name, the first four    *)
(* bytes of the content, the content length, and the document inside       *)

MAX_FILE_SIZE_MB == 100

MaxFileSizeBytes == MAX_FILE_SIZE_MB * 1024 * 1024

PAYLOAD_TOO_LARGE == 413

Upload(name, head, size) == [filename |-> name, head |-> head, size |-> size, doc |-> NativeSmall]

PdfMagic == <<"%", "P", "D", "F">>

ValidUpload == Upload(<<"a", ".", "p", "d", "f">>, PdfMagic, 10)

UpperNameUpload == Upload(<<"B", ".", "P", "D", "F">>, PdfMagic, MaxFileSizeBytes)

BadNameUpload == Upload(<<"c", ".", "t", "x", "t">>, PdfMagic, 10)

NoNameUpload == Upload(<< >>, PdfMagic, 10)

BadMagicUpload == Upload(<<"e", ".", "p", "d", "f">>, <<"<", "h", "t", "m">>, 10)

TooLargeUpload == Upload(<<"f", ".", "p", "d", "f">>, PdfMagic, MaxFileSizeBytes + 1)

BadNameAndMagicUpload == Upload(<<"g", ".", "t", "x", "t">>, <<"<", "h", "t", "m">>, MaxFileSizeBytes + 1)

Uploads == {ValidUpload, UpperNameUpload, BadNameUpload, NoNameUpload, BadMagicUpload, TooLargeUpload, BadNameAndMagicUpload}

BatchUploads == {ValidUpload, BadNameUpload, BadMagicUpload, TooLargeUpload}

(* str.lower on the letters the file names use *)
LowerChar(c) == CASE c = "P" -> "p" [] c = "D" -> "d" [] c = "F" -> "f" [] c = "B" -> "b" [] OTHER -> c

Lower(str) == [i \in 1..Len(str) |-> LowerChar(str[i])]

(* str.endswith / bytes.startswith *)
EndsWith(str, suffix) == Len(str) >= Len(suffix) /\ SubSeq(str, Len(str) - Len(suffix) + 1, Len(str)) = suffix

StartsWith(str, prefix) == Len(str) >= Len(prefix) /\ SubSeq(str, 1, Len(prefix)) = prefix

(* convert.py lines 59 and 138 *)
IsPdfName(name) == name # << >> /\ EndsWith(Lower(name), <<".", "p", "d", "f">>)

(* convert.py lines 65 and 146 *)
HasPdfMagic(u) == StartsWith(u.head, PdfMagic)

(* convert.py lines 69 and 156 *)
TooLarge(u) == u.size > MaxFileSizeBytes

(* ValidationCode without the magic-bytes check of line 65 *)
ValidationCodeNoMagic(u) ==
    IF ~IsPdfName(u.filename) THEN BAD_REQUEST
    ELSE IF TooLarge(u) THEN PAYLOAD_TOO_LARGE
    ELSE OK

(* convert_pdf lines 58-70: the HTTP status validation raises, or OK *)
ValidationCode(u) ==
    IF ~IsPdfName(u.filename) THEN BAD_REQUEST
    ELSE IF ~HasPdfMagic(u) THEN BAD_REQUEST
    ELSE IF TooLarge(u) THEN PAYLOAD_TOO_LARGE
    ELSE OK

(* The parameters of JobManager.create_job (job_manager.py lines 21-28)    *)
(* and the keywords convert_pdf and batch_convert pass it (convert.py      *)
(* lines 82-92 and 167-173).  Python binds a call when every keyword names *)
(* a parameter and every parameter without default gets a value; it raises *)
(* TypeError otherwise                                                     *)
CreateJobParams == {"job_id", "filename", "file_size", "file_path", "settings_data"}

CreateJobKeywords == {"job_id", "filename", "file_size", "file_path", "settings"}

Binds(keywords, params) == keywords \subseteq params /\ params \subseteq keywords

MaxSaved == MaxJobs + MaxBatch

(* convert_pdf lines 58-92.  A valid upload is saved under a fresh job id, *)
(* then create_job is called; when the call binds, the job exists and the  *)
(* handler goes on at line 94 (ConvertDispatch), otherwise the TypeError   *)
(* leaves the handler and main.py answers 500                              *)
ConvertPdf(u) ==
    /\ IF ValidationCode(u) # OK
       THEN /\ resp' = [Response("convert", 0, ValidationCode(u), None) EXCEPT !.request = <<u>>]
            /\ UNCHANGED <<jobs, pc, upload, disk, nextId>>
       ELSE /\ nextId < MaxSaved
            /\ nextId' = nextId + 1
            /\ upload' = StorePut(upload, nextId + 1, u.doc)
            /\ disk' = disk \cup {nextId + 1}
            /\ IF Binds(CreateJobKeywords, CreateJobParams) /\ nextId + 1 \in JobIds
               THEN /\ jobs' = StorePut(jobs, nextId + 1, NewJob(nextId + 1, u.doc, SettingsOf(TRUE), now))
                    /\ pc' = [pc EXCEPT ![nextId + 1] = Ctl("created", "none", 0, FALSE, "none", 0)]
                    /\ resp' = resp
               ELSE /\ resp' = [Response("convert", nextId + 1, INTERNAL_ERROR, None) EXCEPT !.request = <<u>>]
                    /\ UNCHANGED <<jobs, pc>>
    /\ UNCHANGED <<now, reply, keys, ocr_run, ret>>

(* One turn of batch_convert's loop (lines 137-183) on file u with the     *)
(* next fresh id: the entry appended to results                            *)
BatchEntry(u) ==
    IF ~IsPdfName(u.filename) THEN [filename |-> u.filename, success |-> FALSE, error |-> "Not a PDF"]
    ELSE IF ~HasPdfMagic(u) THEN [filename |-> u.filename, success |-> FALSE, error |-> "Invalid PDF"]
    ELSE IF TooLarge(u) THEN [filename |-> u.filename, success |-> FALSE, error |-> "Too large"]
    ELSE IF ~Binds(CreateJobKeywords, CreateJobParams) THEN [filename |-> u.filename, success |-> FALSE, error |-> "TypeError"]
    ELSE [filename |-> u.filename, success |-> TRUE, error |-> ""]

(* whether the turn reaches save_file (line 165) *)
BatchSaves(u) == IsPdfName(u.filename) /\ HasPdfMagic(u) /\ ~TooLarge(u)

(* BatchContinues with a file of the wrong name ending the loop *)
BatchStopsOnBadName(u) == IsPdfName(u.filename)

(* whether the turn goes on to the next file (continue, or the end of the  *)
(* try statement)                                                          *)
BatchContinues(u) == TRUE

RECURSIVE BatchResults(_)
(* batch_convert lines 135-183: results after the loop over files *)
BatchResults(files) ==
    IF files = << >> THEN << >>
    ELSE IF BatchContinues(Head(files)) THEN <<BatchEntry(Head(files))>> \o BatchResults(Tail(files))
    ELSE <<BatchEntry(Head(files))>>

(* the files of the batch whose turn reached save_file *)
SavedCount(files) == Cardinality({i \in 1..Len(files) : BatchSaves(files[i])})

BatchInputs == UNION {[1..n -> BatchUploads] : n \in 0..MaxBatch} \cup {[i \in 1..(BATCH_CAP + 1) |-> ValidUpload]}

(* batch_convert lines 121-189 *)
BatchConvert(files) ==
    /\ IF Len(files) > BATCH_CAP
       THEN /\ resp' = [Response("batch", 0, BAD_REQUEST, None) EXCEPT !.request = files]
            /\ UNCHANGED <<upload, disk, nextId>>
       ELSE /\ nextId + SavedCount(files) <= MaxSaved
            /\ nextId' = nextId + SavedCount(files)
            /\ disk' = disk \cup ((nextId + 1)..(nextId + SavedCount(files)))
            /\ upload' = [k \in DOMAIN upload \cup ((nextId + 1)..(nextId + SavedCount(files))) |-> IF k \in DOMAIN upload THEN upload[k] ELSE NativeSmall]
            /\ resp' = [Response("batch", 0, OK, None) EXCEPT !.request = files, !.results = BatchResults(files)]
    /\ UNCHANGED <<jobs, pc, now, reply, keys, ocr_run, ret>>

(* The submit routes *)
NextSubmit ==
    \/ \E in \in RouteInputs : CreateJob(in[1], in[2])
    \/ \E u \in Uploads : ConvertPdf(u)
    \/ \E files \in BatchInputs : BatchConvert(files)

SpecSubmit == Init /\ [][NextSubmit]_vars

-----------------------------------------------------------------------------
(* PDFService.analyze on its own.  A page of a file is what the decoder    *)
(* reports of it: the length of its stripped text and, for each image on   *)
(* it, the share of the page area the image covers, in percent.            *)

MIN_CHARS_FOR_TEXT_PAGE == 50

SCAN_COVER_PERCENT == 80

Page(char_count, images) == [char_count |-> char_count, images |-> images]

CharCounts == {0, MIN_CHARS_FOR_TEXT_PAGE - 1, MIN_CHARS_FOR_TEXT_PAGE}

ImageLists == {<< >>, <<30>>, <<SCAN_COVER_PERCENT>>, <<90>>}

Pages == {Page(c, i) : c \in CharCounts, i \in ImageLists}

Files == UNION {[1..n -> Pages] : n \in 0..MaxDocPages}

(* analyze line 159 *)
HasText(page) == page.char_count >= MIN_CHARS_FOR_TEXT_PAGE

(* _is_scanned_page, lines 211-236 *)
IsScannedPage(page) ==
    IF page.images = << >> THEN FALSE
    ELSE \E i \in 1..Len(page.images) : page.images[i] > SCAN_COVER_PERCENT

(* PageNeedsOcr with a page of exactly MIN_CHARS_FOR_TEXT_PAGE characters  *)
(* not counted as text                                                     *)
PageNeedsOcrStrict(page) ==
    ~(page.char_count > MIN_CHARS_FOR_TEXT_PAGE) /\ (Len(page.images) > 0 \/ IsScannedPage(page))

(* analyze lines 162-164 *)
PageNeedsOcr(page) ==
    ~HasText(page) /\ (Len(page.images) > 0 \/ IsScannedPage(page))

(* analyze lines 171-181 *)
PageInfo(page_number, page) ==
    [ page_number |-> page_number,
      has_text    |-> HasText(page),
      char_count  |-> page.char_count,
      image_count |-> Len(page.images),
      needs_ocr   |-> PageNeedsOcr(page) ]

RECURSIVE CountPages(_, _)
(* analyze lines 166-169: the counters after the loop over infos, for the  *)
(* PageInfo field named                                                   *)
CountPages(infos, flag) ==
    IF infos = << >> THEN 0
    ELSE CountPages(Tail(infos), flag) + (IF Head(infos)[flag] THEN 1 ELSE 0)

(* analyze lines 145-206 *)
AnalyzeFile(file) ==
    LET infos == [i \in 1..Len(file) |-> PageInfo(i, file[i])]
        pages_needing_ocr == CountPages(infos, "needs_ocr")
    IN  [ total_pages       |-> Len(file),
          document_type     |-> DocTypeOf(pages_needing_ocr, Len(file)),
          needs_ocr         |-> pages_needing_ocr > 0,
          pages_with_text   |-> CountPages(infos, "has_text"),
          pages_needing_ocr |-> pages_needing_ocr,
          pages             |-> infos ]

Returned(call, args, value) == [call |-> call, args |-> args, value |-> value]

(* one call of a service function, made on its own on a fresh service *)

AnalyzeCall(file) ==
    /\ ret = NoCall
    /\ ret' = Returned("analyze", file, AnalyzeFile(file))
    /\ UNCHANGED app_vars

(* PDFService._extract_native and _extract_with_ocr on their own.  A page  *)
(* is its size, the blocks get_text("dict") lists (type 0 text, 1 image)   *)
(* and the boxes of the tables find_tables finds, all in page units; an    *)
(* OCR result is the list of items the provider returned.                  *)

NORMALIZED_MAX == 1000

(* Python int(): truncation towards zero of n / d, for d > 0 *)
Trunc(n, d) == IF n >= 0 THEN n \div d ELSE -((-n) \div d)

(* _normalize_bbox, lines 465-478 *)
NormalizeBbox(bbox, page_width, page_height) ==
    << Trunc(bbox[1] * NORMALIZED_MAX, page_width),
       Trunc(bbox[2] * NORMALIZED_MAX, page_height),
       Trunc(bbox[3] * NORMALIZED_MAX, page_width),
       Trunc(bbox[4] * NORMALIZED_MAX, page_height) >>

PageSize == [width |-> 100, height |-> 200]

(* boxes <<x_min, y_min, x_max, y_max>>: three inside the page, one that   *)
(* starts left of it and ends below it                                     *)
SourceBoxes == {<<0, 0, 50, 100>>, <<50, 0, 100, 100>>, <<0, 100, 50, 200>>, <<-10, 100, 50, 220>>}

Block(type, bbox) == [type |-> type, bbox |-> bbox]

BlockLists == UNION {[1..n -> {Block(t, b) : t \in {0, 1}, b \in SourceBoxes}] : n \in 0..MaxBlocks}

TableLists == UNION {[1..n -> SourceBoxes] : n \in 0..MaxTables}

Element(type, bbox) == [type |-> type, bbox |-> bbox]

(* the sort key of lines 402 and 445: (e.bbox[1], e.bbox[0]) *)
KeyLess(a, b) == a.bbox[2] < b.bbox[2] \/ (a.bbox[2] = b.bbox[2] /\ a.bbox[1] < b.bbox[1])

RECURSIVE InsertByKey(_, _)
InsertByKey(e, sorted) ==
    IF sorted = << >> THEN <<e>>
    ELSE IF KeyLess(e, Head(sorted)) THEN <<e>> \o sorted
    ELSE <<Head(sorted)>> \o InsertByKey(e, Tail(sorted))

(* SortElements leaving the elements in the order they were collected *)
SortElementsSkipped(elements) == elements

RECURSIVE SortElements(_)
(* list.sort(key=...), lines 402 and 445: a stable sort *)
SortElements(elements) ==
    IF elements = << >> THEN << >>
    ELSE InsertByKey(elements[Len(elements)], SortElements(SubSeq(elements, 1, Len(elements) - 1)))

PageStructure(elements) == [raised |-> "", elements |-> elements]

Raised(error) == [raised |-> error, elements |-> << >>]

(* _extract_native, lines 313-409: text and image blocks in block order,   *)
(* the tables after them, then the sort                                    *)
ExtractNative(blocks, tables) ==
    LET fromBlocks == [i \in 1..Len(blocks) |-> Element(IF blocks[i].type = 0 THEN "paragraph" ELSE "image", NormalizeBbox(blocks[i].bbox, PageSize.width, PageSize.height))]
        fromTables == [i \in 1..Len(tables) |-> Element("table", NormalizeBbox(tables[i], PageSize.width, PageSize.height))]
    IN  PageStructure(SortElements(fromBlocks \o fromTables))

(* the items an OCR provider may return: boxes in the 0..1000 space, some  *)
(* of them outside it                                                      *)
OcrItems == {Element("paragraph", NormalizeBbox(b, PageSize.width, PageSize.height)) : b \in SourceBoxes}

OcrItemLists == UNION {[1..n -> OcrItems] : n \in 0..MaxBlocks}

(* _extract_with_ocr, lines 424-453, from the result process_image        *)
(* returned: each item's bbox is taken as it is                            *)
ExtractWithOcr(provider, items) ==
    IF ExtractWithOcrRaises(provider, "ok") THEN Raised("AttributeError")
    ELSE PageStructure(SortElements([i \in 1..Len(items) |-> Element(items[i].type, items[i].bbox)]))

ExtractNativeCall(blocks, tables) ==
    /\ ret = NoCall
    /\ ret' = Returned("_extract_native", <<blocks, tables>>, ExtractNative(blocks, tables))
    /\ UNCHANGED app_vars

ExtractWithOcrCall(provider, items) ==
    /\ ret = NoCall
    /\ ret' = Returned("_extract_with_ocr", <<provider, items>>, ExtractWithOcr(provider, items))
    /\ UNCHANGED app_vars

(* get_ocr_provider on its own, for a provider name and a configuration *)
ProviderTypes == {"auto"} \cup Providers

KeySets == SUBSET {"mistral", "deepseek"}

GetOcrProviderCall(provider_type, configured) ==
    /\ ret = NoCall
    /\ ret' = Returned("get_ocr_provider", <<provider_type, configured>>, GetOcrProvider(provider_type, configured))
    /\ UNCHANGED app_vars

NextService ==
    \/ \E file \in Files : AnalyzeCall(file)
    \/ \E provider_type \in ProviderTypes, configured \in KeySets : GetOcrProviderCall(provider_type, configured)
    \/ \E blocks \in BlockLists, tables \in TableLists : ExtractNativeCall(blocks, tables)
    \/ \E provider \in Providers, items \in OcrItemLists : ExtractWithOcrCall(provider, items)

SpecService == Init /\ [][NextService]_vars

-----------------------------------------------------------------------------
Next ==
    \/ \E in \in Inputs : CreateJob(in[1], in[2])
    \/ \E j \in JobIds : ConvertDispatch(j)
    \/ \E j \in JobIds : RunBackground(j)
    \/ \E j \in JobIds : Analyze(j)
    \/ \E j \in JobIds : Setup(j)
    \/ \E j \in JobIds : ExtractPage(j)
    \/ \E j \in JobIds : ExtractFinish(j)
    \/ \E j \in JobIds : EnterAssembly(j)
    \/ \E j \in JobIds : Generate(j)

Spec == Init /\ [][Next]_vars

(* The pipeline under a configuration with or without the DeepSeek key *)
InitOcr ==
    /\ jobs = << >>
    /\ pc = [j \in JobIds |-> Free]
    /\ upload = << >>
    /\ disk = {}
    /\ nextId = 0
    /\ now = 0
    /\ reply = [j \in JobIds |-> NoResponse]
    /\ resp = NoResponse
    /\ keys \in {{}, {"deepseek"}}
    /\ ocr_run = [j \in JobIds |-> NoOcr]
    /\ ret = NoCall

NextOcr ==
    \/ \E in \in OcrInputs : CreateJob(in[1], in[2])
    \/ \E j \in JobIds : ConvertDispatch(j)
    \/ \E j \in JobIds : RunBackground(j)
    \/ \E j \in JobIds : Analyze(j)
    \/ \E j \in JobIds : Setup(j)
    \/ \E j \in JobIds : ExtractPage(j)
    \/ \E j \in JobIds : ExtractFinish(j)
    \/ \E j \in JobIds : EnterAssembly(j)
    \/ \E j \in JobIds : Generate(j)

SpecOcr == InitOcr /\ [][NextOcr]_vars

(* The clock, in hours: datetime.utcnow() as create_job, update_job and    *)
(* cleanup_old_jobs read it                                                *)
Tick ==
    /\ now < MaxTime
    /\ now' = now + 1
    /\ UNCHANGED <<jobs, pc, upload, disk, nextId, reply, resp, keys, ocr_run, ret>>

(* cleanup_old_jobs lines 110-116: the jobs the sweep deletes at time t *)
Expired(store, t, hours) == {j \in DOMAIN store : store[j].status \in {COMPLETED, FAILED} /\ store[j].created_at < t - hours}

(* the parameter of cleanup_old_jobs (job_manager.py line 108, it has a    *)
(* default) and the keyword delete_completed_jobs passes (jobs.py line 186)*)
CleanupParams == {"hours"}

CleanupKeywords == {"older_than_hours"}

(* a call binds when every keyword names a parameter *)
AcceptsKeywords(keywords, params) == keywords \subseteq params

(* the values of older_than_hours the model sends (Query(24, ge=1, le=720)) *)
Hours == {1}

(* jobs.py delete_completed_jobs, lines 173-192, with cleanup_old_jobs and *)
(* delete_job (job_manager.py lines 94-121) when the call binds            *)
DeleteCompletedJobs(older_than_hours) ==
    /\ IF AcceptsKeywords(CleanupKeywords, CleanupParams)
       THEN LET to_delete == Expired(jobs, now, older_than_hours)
            IN  /\ jobs' = [k \in DOMAIN jobs \ to_delete |-> jobs[k]]
                /\ disk' = disk \ to_delete
                /\ resp' = [Response("cleanup", 0, OK, None) EXCEPT !.request = <<older_than_hours>>, !.results = <<Cardinality(to_delete)>>]
       ELSE /\ resp' = [Response("cleanup", 0, INTERNAL_ERROR, None) EXCEPT !.request = <<older_than_hours>>]
            /\ UNCHANGED <<jobs, disk>>
    /\ UNCHANGED <<pc, upload, nextId, now, reply, keys, ocr_run, ret>>

(* The pipeline with the clock running and the cleanup route called *)
NextCleanup ==
    \/ \E in \in CleanupInputs : CreateJob(in[1], in[2])
    \/ \E j \in JobIds : ConvertDispatch(j)
    \/ \E j \in JobIds : RunBackground(j)
    \/ \E j \in JobIds : Analyze(j)
    \/ \E j \in JobIds : Setup(j)
    \/ \E j \in JobIds : ExtractPage(j)
    \/ \E j \in JobIds : ExtractFinish(j)
    \/ \E j \in JobIds : EnterAssembly(j)
    \/ \E j \in JobIds : Generate(j)
    \/ Tick
    \/ \E h \in Hours : DeleteCompletedJobs(h)

SpecCleanup == Init /\ [][NextCleanup]_vars

(* The pipeline with jobs deleted under it *)
NextDelete ==
    \/ \E in \in DeleteInputs : CreateJob(in[1], in[2])
    \/ \E j \in JobIds : ConvertDispatch(j)
    \/ \E j \in JobIds : RunBackground(j)
    \/ \E j \in JobIds : Analyze(j)
    \/ \E j \in JobIds : Setup(j)
    \/ \E j \in JobIds : ExtractPage(j)
    \/ \E j \in JobIds : ExtractFinish(j)
    \/ \E j \in JobIds : EnterAssembly(j)
    \/ \E j \in JobIds : Generate(j)
    \/ \E j \in JobIds : DeleteJob(j)

SpecDelete == Init /\ [][NextDelete]_vars

(* The pipeline with the job routes called at any time *)
NextJobs ==
    \/ \E in \in RouteInputs : CreateJob(in[1], in[2])
    \/ \E j \in JobIds : ConvertDispatch(j)
    \/ \E j \in JobIds : RunBackground(j)
    \/ \E j \in JobIds : Analyze(j)
    \/ \E j \in JobIds : Setup(j)
    \/ \E j \in JobIds : ExtractPage(j)
    \/ \E j \in JobIds : ExtractFinish(j)
    \/ \E j \in JobIds : EnterAssembly(j)
    \/ \E j \in JobIds : Generate(j)
    \/ \E j \in JobIds : CancelRoute(j)
    \/ \E j \in JobIds : RetryRoute(j)

SpecJobs == Init /\ [][NextJobs]_vars

(* convert.py generate_job_id, lines 23-24: the first twelve characters of *)
(* a random uuid4; nothing compares the value with the ids in the store,   *)
(* so the call can return any id, one in use included                      *)
GenerateJobId == JobIds

(* convert_pdf lines 74-92 with an id generate_job_id returned: save_file   *)
(* (makedirs with exist_ok) and JobManager.create_job, whose line 49,       *)
(* self._jobs[job_id] = job, stores the record whatever the store holds     *)
CreateJobAt(job_id, doc, settings_data) ==
    /\ upload' = StorePut(upload, job_id, doc)
    /\ disk' = disk \cup {job_id}
    /\ jobs' = StorePut(jobs, job_id, NewJob(job_id, doc, settings_data, now))
    /\ pc' = [pc EXCEPT ![job_id] = Ctl("created", "none", 0, FALSE, "none", 0)]
    /\ UNCHANGED <<nextId, now, reply, resp, keys, ocr_run, ret>>

(* Jobs created under the ids generate_job_id returns while the clock runs *)
NextCreate ==
    \/ \E job_id \in GenerateJobId, in \in Inputs : CreateJobAt(job_id, in[1], in[2])
    \/ Tick

SpecCreate == Init /\ [][NextCreate]_vars

(* The progress values process_pdf passes to update_job (convert.py lines  *)
(* 240, 254, 271 and 288)                                                   *)
ProgressWrites == {10, 20, 85, 100}

(* ... the uploads whose jobs are updated *)
UpdateInputs == {<<NativeSmall, SettingsOf(TRUE)>>}

(* JobManager.update_job(job_id, progress=progress), lines 61-75: the value *)
(* is written when it is not None; nothing compares it with the stored one  *)
UpdateProgress(job_id, progress) ==
    /\ jobs' = UpdateJob(jobs, job_id, [progress |-> Some(progress)], now)
    /\ ret' = Returned("update_job", <<job_id, progress>>, IF job_id \in DOMAIN jobs THEN Some(progress) ELSE None)
    /\ UNCHANGED <<pc, upload, disk, nextId, now, reply, resp, keys, ocr_run>>

(* on_progress (convert.py lines 257-261) as extract_structure calls it    *)
(* (pdf_service.py lines 272-275 before page page_num + 1, lines 290-292   *)
(* after the last page)                                                    *)
ReportProgress(job_id, page_num) ==
    /\ job_id \in DOMAIN jobs
    /\ LET n == upload[job_id].npages
           progress == IF page_num < n THEN PagePercent(page_num, n) ELSE 100
           page == IF page_num < n THEN page_num + 1 ELSE n
       IN  /\ page_num \in 0..n
           /\ jobs' = OnProgress(jobs, job_id, progress, page)
           /\ ret' = Returned("on_progress", <<job_id, Scaled(progress)>>, None)
    /\ UNCHANGED <<pc, upload, disk, nextId, now, reply, resp, keys, ocr_run>>

(* Jobs updated in any order *)
NextUpdate ==
    \/ \E in \in UpdateInputs : CreateJob(in[1], in[2])
    \/ \E job_id \in JobIds, progress \in ProgressWrites : UpdateProgress(job_id, progress)
    \/ \E job_id \in JobIds, page_num \in 0..SmallPages : ReportProgress(job_id, page_num)

SpecUpdate == Init /\ [][NextUpdate]_vars

(* extract_structure's page loop in two steps, as an observer of the store *)
(* can see it: the callback of lines 272-275 runs first (pc[j].at becomes  *)
(* "page"), the page is extracted after it (lines 277-288, with an await   *)
(* on the OCR path); pc[j].page counts the pages extracted so far          *)
ReportPage(j) ==
    /\ pc[j].at = "extract"
    /\ pc[j].page < upload[j].npages
    /\ IF pc[j].page = 0 /\ j \notin disk
       THEN FailRun(j, jobs, "extract")
       ELSE /\ jobs' = OnProgress(jobs, j, PagePercent(pc[j].page, upload[j].npages), pc[j].page + 1)
            /\ pc' = [pc EXCEPT ![j].at = "page"]
            /\ reply' = reply
    /\ UNCHANGED <<upload, disk, nextId, now, resp, keys, ocr_run, ret>>

(* lines 277-288: the page reported last is extracted, or its OCR raises *)
ExtractReported(j) ==
    /\ pc[j].at = "page"
    /\ LET viaOcr == pc[j].ocr /\ (pc[j].page + 1) \in upload[j].ocr_pages
       IN  \/ /\ viaOcr
              /\ \E outcome \in ProcessImageOutcomes(ocr_run[j].provider, upload[j], pc[j].page + 1) :
                    /\ ocr_run' = [ocr_run EXCEPT ![j].calls = Append(@, <<pc[j].page + 1, outcome>>)]
                    /\ IF ExtractWithOcrRaises(ocr_run[j].provider, outcome)
                       THEN FailRun(j, jobs, "extract")
                       ELSE /\ jobs' = jobs
                            /\ pc' = [pc EXCEPT ![j].at = "extract", ![j].page = pc[j].page + 1]
                            /\ reply' = reply
           \/ /\ ~viaOcr
              /\ jobs' = jobs
              /\ pc' = [pc EXCEPT ![j].at = "extract", ![j].page = pc[j].page + 1]
              /\ reply' = reply
              /\ ocr_run' = ocr_run
    /\ UNCHANGED <<upload, disk, nextId, now, resp, keys, ret>>

(* The pipeline with the page loop observed between callback and page *)
NextExtract ==
    \/ \E in \in Inputs : CreateJob(in[1], in[2])
    \/ \E j \in JobIds : ConvertDispatch(j)
    \/ \E j \in JobIds : RunBackground(j)
    \/ \E j \in JobIds : Analyze(j)
    \/ \E j \in JobIds : Setup(j)
    \/ \E j \in JobIds : ReportPage(j)
    \/ \E j \in JobIds : ExtractReported(j)
    \/ \E j \in JobIds : ExtractFinish(j)
    \/ \E j \in JobIds : EnterAssembly(j)
    \/ \E j \in JobIds : Generate(j)

SpecExtract == Init /\ [][NextExtract]_vars

(* The steps of the request handler and of the pipeline run working on job *)
(* j.  Each is a coroutine of the event loop: convert_pdf awaits           *)
(* process_pdf (convert.py line 96), the background task added at line 112 *)
(* is run once the response is sent, and every await inside process_pdf    *)
(* returns or raises, so a step that stays possible is taken               *)
PipelineStep(j) ==
    \/ ConvertDispatch(j)
    \/ RunBackground(j)
    \/ Analyze(j)
    \/ Setup(j)
    \/ ExtractPage(j)
    \/ ExtractFinish(j)
    \/ EnterAssembly(j)
    \/ Generate(j)

(* The pipeline with jobs deleted under it, each job's run scheduled fairly *)
SpecLive == Init /\ [][NextDelete]_vars /\ \A j \in JobIds : WF_vars(PipelineStep(j))

(* The keyword arguments of one update_job call; None stands for a keyword *)
(* not passed (update_job line 68 skips a None value either way).  nosuch  *)
(* is a key the job record does not have                                   *)
Kw(status, progress, nosuch) == [status |-> status, progress |-> progress, nosuch |-> nosuch]

(* ... the calls the model makes *)
UpdateKeywords == {Kw(Some(PROCESSING), None, None), Kw(Some(COMPLETED), Some(100), None), Kw(Some(FAILED), None, None), Kw(None, Some(50), None), Kw(None, None, Some(1)), Kw(None, None, None)}

(* JobManager.update_job(job_id, **kw), lines 61-75, called at a later     *)
(* time than the call before it; the value returned is None for an id not  *)
(* in the store and else the view of the record (line 75)                  *)
UpdateCall(job_id, kw) ==
    /\ now < MaxTime
    /\ now' = now + 1
    /\ jobs' = UpdateJob(jobs, job_id, kw, now + 1)
    /\ ret' = Returned("update_job", <<job_id, kw>>, IF job_id \in DOMAIN jobs THEN Some(UpdateJob(jobs, job_id, kw, now + 1)[job_id]) ELSE None)
    /\ UNCHANGED <<pc, upload, disk, nextId, reply, resp, keys, ocr_run>>

(* Jobs created and updated through the JobManager *)
NextStore ==
    \/ \E in \in UpdateInputs : CreateJob(in[1], in[2])
    \/ \E job_id \in JobIds, kw \in UpdateKeywords : UpdateCall(job_id, kw)

SpecStore == Init /\ [][NextStore]_vars

(* A valid upload whose content the decoder cannot open: get_page_count   *)
(* (convert.py lines 192-202) answers PAGE_COUNT_ON_ERROR for it           *)
UnreadableUpload == [Upload(<<"h", ".", "p", "d", "f">>, PdfMagic, 10) EXCEPT !.doc = Corrupt]

CountUploads == {ValidUpload, UnreadableUpload}

(* convert_pdf on uploads the decoder can and cannot open, next to jobs    *)
(* created with create_job's own signature and run by the pipeline         *)
NextCount ==
    \/ \E u \in CountUploads : ConvertPdf(u)
    \/ \E in \in RouteInputs : CreateJob(in[1], in[2])
    \/ \E j \in JobIds : ConvertDispatch(j)
    \/ \E j \in JobIds : RunBackground(j)
    \/ \E j \in JobIds : Analyze(j)
    \/ \E j \in JobIds : Setup(j)
    \/ \E j \in JobIds : ExtractPage(j)
    \/ \E j \in JobIds : ExtractFinish(j)
    \/ \E j \in JobIds : EnterAssembly(j)
    \/ \E j \in JobIds : Generate(j)

SpecCount == Init /\ [][NextCount]_vars

(* PDFService._classify_text_element on its own.  A text is the sequence  *)
(* of its characters                                                       *)

(* str.strip: leading and trailing white space removed *)
RECURSIVE StripLeft(_)
StripLeft(text) == IF text # << >> /\ Head(text) = " " THEN StripLeft(Tail(text)) ELSE text

RECURSIVE StripRight(_)
StripRight(text) == IF text # << >> /\ text[Len(text)] = " " THEN StripRight(SubSeq(text, 1, Len(text) - 1)) ELSE text

Strip(text) == StripRight(StripLeft(text))

(* line 494: the glyphs that start a list item; U+2022 is the bullet,      *)
(* U+2013 the en dash, U+25E6 the white bullet                             *)
Bullets == {"U+2022", "-", "*", "U+2013", "U+25E6"}

StartsWithBullet(text) == Strip(text) # << >> /\ Head(Strip(text)) \in Bullets

Digits == {"0", "1", "2", "3", "4", "5", "6", "7", "8", "9"}

(* str.replace(".", "").replace(")", "") *)
RECURSIVE Unpunctuated(_)
Unpunctuated(text) ==
    IF text = << >> THEN << >>
    ELSE IF Head(text) \in {".", ")"} THEN Unpunctuated(Tail(text))
    ELSE <<Head(text)>> \o Unpunctuated(Tail(text))

(* str.isdigit: not empty and every character a digit *)
IsDigit(text) == text # << >> /\ \A i \in 1..Len(text) : text[i] \in Digits

(* line 496: text.strip()[0:3].replace(".", "").replace(")", "").isdigit() *)
NumericPrefix(text) == LET stripped == Strip(text) IN IsDigit(Unpunctuated(SubSeq(stripped, 1, IF Len(stripped) < 3 THEN Len(stripped) ELSE 3)))

(* Classify with the list tests before the heading tests *)
ClassifyListFirst(text, font_size, is_bold) ==
    IF StartsWithBullet(text) THEN "list_item"
    ELSE IF NumericPrefix(text) THEN "list_item"
    ELSE IF font_size >= 18 /\ is_bold THEN "heading_1"
    ELSE IF font_size >= 14 /\ is_bold THEN "heading_2"
    ELSE IF font_size >= 12 /\ is_bold THEN "heading_3"
    ELSE "paragraph"

(* _classify_text_element, lines 480-499 *)
Classify(text, font_size, is_bold) ==
    IF font_size >= 18 /\ is_bold THEN "heading_1"
    ELSE IF font_size >= 14 /\ is_bold THEN "heading_2"
    ELSE IF font_size >= 12 /\ is_bold THEN "heading_3"
    ELSE IF StartsWithBullet(text) THEN "list_item"
    ELSE IF NumericPrefix(text) THEN "list_item"
    ELSE "paragraph"

(* the lines of text the model classifies, with the font sizes around the  *)
(* three thresholds                                                        *)
Texts == {<< >>, <<"a", "b">>, <<"a", "1">>, <<"U+2022", " ", "a">>, <<"-", "a">>, <<" ", "*">>, <<"7">>, <<"1", "2", ")">>, <<"1", "2", "3", "4">>, <<"1", ".", " ", "a">>, <<"1", "a", ".">>, <<" ", "2", ".", "a">>, <<".", ")", ".">>}

FontSizes == {11, 12, 13, 14, 17, 18, 20}

ClassifyCall(text, font_size, is_bold) ==
    /\ ret = NoCall
    /\ ret' = Returned("_classify_text_element", <<text, font_size, is_bold>>, Classify(text, font_size, is_bold))
    /\ UNCHANGED app_vars

NextClassify == \E text \in Texts, font_size \in FontSizes, is_bold \in BOOLEAN : ClassifyCall(text, font_size, is_bold)

SpecClassify == Init /\ [][NextClassify]_vars

-----------------------------------------------------------------------------
(* Properties *)

Errors == {"analysis", "ocr_init", "extract", "docx"}

(* C1: for every job the stored progress is always in 0..100, and every    *)
(* step that keeps the job stores a progress greater than or equal to the  *)
(* one stored before                                                       *)
C1_ProgressNeverDecreases == [][\A j \in JobIds : (j \in DOMAIN jobs' => jobs'[j].progress \in 0..100) /\ ((j \in DOMAIN jobs /\ j \in DOMAIN jobs') => jobs'[j].progress >= jobs[j].progress)]_vars

StatusGraph == {<<PENDING, PROCESSING>>, <<PROCESSING, COMPLETED>>, <<PROCESSING, FAILED>>, <<PENDING, CANCELLED>>, <<PROCESSING, CANCELLED>>}

(* C2: every change of a job's status is an edge of PENDING -> PROCESSING  *)
(* -> {COMPLETED, FAILED}, {PENDING, PROCESSING} -> CANCELLED; a terminal  *)
(* status is never left                                                    *)
C2_StatusFollowsGraph == [][\A j \in JobIds : (j \in DOMAIN jobs /\ j \in DOMAIN jobs' /\ jobs'[j].status # jobs[j].status) => <<jobs[j].status, jobs'[j].status>> \in StatusGraph]_vars

(* a step in which route op answered a request about job j *)
Answered(op, j) == resp' # resp /\ resp'.op = op /\ resp'.job = j

(* C3: cancel on a COMPLETED or FAILED job answers Conflict and leaves the *)
(* record unchanged; cancel on a PENDING or PROCESSING job succeeds and    *)
(* sets the status to CANCELLED                                            *)
C3_CancelByStatus == [][\A j \in JobIds : (Answered("cancel", j) /\ j \in DOMAIN jobs) => IF jobs[j].status \in {COMPLETED, FAILED} THEN resp'.code = CONFLICT /\ jobs' = jobs ELSE resp'.code = OK /\ jobs'[j].status = CANCELLED]_vars

(* C4: retry on a FAILED job creates a new job under another id with the   *)
(* same filename, file reference and settings, PENDING and progress 0, and *)
(* leaves the original record unchanged                                    *)
C4_RetryCreatesJob == [][\A j \in JobIds : (Answered("retry", j) /\ j \in DOMAIN jobs /\ jobs[j].status = FAILED) => (resp'.code = OK /\ jobs'[j] = jobs[j] /\ \E k \in DOMAIN jobs' \ DOMAIN jobs : jobs'[k].filename = jobs[j].filename /\ jobs'[k].file_path = jobs[j].file_path /\ jobs'[k].settings = jobs[j].settings /\ jobs'[k].status = PENDING /\ jobs'[k].progress = 0)]_vars

(* C5, with Conflict: retry on a job that is not FAILED answers Conflict,      *)
(* creates no job and leaves the store unchanged                           *)
C5_RetryConflict == [][\A j \in JobIds : (Answered("retry", j) /\ j \in DOMAIN jobs /\ jobs[j].status # FAILED) => (resp'.code = CONFLICT /\ jobs' = jobs /\ nextId' = nextId)]_vars

(* C5, with Bad Request: retry on a job that is not FAILED is refused with HTTP   *)
(* 400 (Bad Request), creates no job and leaves the store unchanged        *)
C5_RetryRefused == [][\A j \in JobIds : (Answered("retry", j) /\ j \in DOMAIN jobs /\ jobs[j].status # FAILED) => (resp'.code = BAD_REQUEST /\ jobs' = jobs /\ nextId' = nextId)]_vars

C5_Witness == resp.op = "retry" /\ resp.code = BAD_REQUEST /\ resp.job \in DOMAIN jobs /\ \E k \in DOMAIN jobs : jobs[k].status = COMPLETED

(* C6: a job whose upload has at most SYNC_PAGE_LIMIT pages is answered    *)
(* with its terminal status, never with PENDING, and is never queued or    *)
(* run in the background; a job with more pages is answered PENDING and    *)
(* never run inline                                                        *)
C6_SubmitInlineOrQueued == \A j \in JobIds : (j \in DOMAIN upload /\ pc[j].at \notin {"free", "created"}) => IF PageCount(upload[j]) <= SYNC_PAGE_LIMIT THEN pc[j].at # "queued" /\ pc[j].mode # "background" /\ reply[j].status # Some(PENDING) ELSE pc[j].mode # "inline" /\ reply[j].status = Some(PENDING)

(* C7: process_pdf is called at most once for any job id *)
C7_PipelineRunsOnce == \A j \in JobIds : pc[j].runs <= 1

(* C8: when a run of the pipeline ends without success, process_pdf has    *)
(* returned its failure result (it did not raise) and, if the job is still *)
(* in the store, the job has status FAILED and a message carrying the      *)
(* error                                                                   *)
C8_FailureIsRecorded == [][\A j \in JobIds : (pc[j].at \in Running /\ pc'[j].at \notin Running /\ pc'[j].result # "success") => (pc'[j].result = "failure" /\ (j \in DOMAIN jobs => (j \in DOMAIN jobs' /\ jobs'[j].status = FAILED /\ \E e \in Errors : jobs'[j].message = ErrorMsg(e))))]_vars

C8_Witness == \E j \in DOMAIN jobs : pc[j].result = "failure" /\ jobs[j].status = FAILED /\ jobs[j].message = ErrorMsg("extract") /\ \E k \in JobIds : k \notin DOMAIN jobs /\ pc[k].result = "failure"

(* an upload that fails validation: wrong name, wrong signature or too large *)
Invalid(u) == ~IsPdfName(u.filename) \/ ~HasPdfMagic(u) \/ TooLarge(u)

(* C9: a batch of N <= BATCH_CAP files is answered with N entries, entry i *)
(* for file i; an invalid file and a file whose set-up raised get a failed *)
(* entry, and every entry is the one its file gets when submitted alone    *)
C9_BatchOneEntryPerFile == (resp.op = "batch" /\ Len(resp.request) <= BATCH_CAP) => (resp.code = OK /\ Len(resp.results) = Len(resp.request) /\ \A i \in 1..Len(resp.request) : resp.results[i].filename = resp.request[i].filename /\ (Invalid(resp.request[i]) => ~resp.results[i].success) /\ (resp.results[i].error = "TypeError" => ~resp.results[i].success) /\ resp.results[i] = BatchResults(<<resp.request[i]>>)[1])

C9_Witness == resp.op = "batch" /\ resp.request = <<BadNameUpload, ValidUpload>> /\ Len(resp.results) = 2 /\ resp.results[1].error = "Not a PDF" /\ resp.results[2].error = "TypeError"

(* C10: an invalid upload sent to convert_pdf is answered with a           *)
(* validation error (400 or 413) and nothing else happens: no job record,  *)
(* no saved file, no job id taken, no run started or queued                *)
C10_InvalidUploadRejected == [][(resp' # resp /\ resp'.op = "convert" /\ Len(resp'.request) = 1 /\ Invalid(resp'.request[1])) => (resp'.code \in {BAD_REQUEST, PAYLOAD_TOO_LARGE} /\ jobs' = jobs /\ disk' = disk /\ upload' = upload /\ nextId' = nextId /\ pc' = pc /\ reply' = reply)]_vars

C10_Witness == resp.op = "convert" /\ resp.request = <<BadMagicUpload>> /\ resp.code = BAD_REQUEST /\ jobs # << >> /\ disk = DOMAIN jobs

(* C11: in every analysis, document_type is native exactly when no page   *)
(* needs OCR (so also for a file of 0 pages), scanned exactly when every   *)
(* page needs OCR and there is at least one page, mixed otherwise; and     *)
(* pages_needing_ocr is the number of pages whose needs_ocr is true        *)
C11_DocumentType == ret.call = "analyze" => LET a == ret.value IN /\ a.total_pages = Len(ret.args) /\ a.pages_needing_ocr = Cardinality({i \in 1..Len(a.pages) : a.pages[i].needs_ocr}) /\ (a.document_type = "native" <=> a.pages_needing_ocr = 0) /\ (a.document_type = "scanned" <=> (a.pages_needing_ocr = a.total_pages /\ a.total_pages > 0)) /\ (a.document_type = "mixed" <=> (a.pages_needing_ocr # 0 /\ ~(a.pages_needing_ocr = a.total_pages /\ a.total_pages > 0)))

C11_Witness == ret.call = "analyze" /\ ret.args = << >> /\ ret.value.total_pages = 0 /\ ret.value.document_type = "native"

(* C12: a page needs OCR exactly when it has fewer than 50 characters and  *)
(* (at least one image, or an image covering more than the scan share of   *)
(* the page); so never with 50 characters or more, and always with fewer   *)
(* than 50 characters and an image covering at least 80% of the page       *)
C12_NeedsOcr == ret.call = "analyze" => \A i \in 1..Len(ret.args) : LET page == ret.args[i] needs == ret.value.pages[i].needs_ocr big == \E k \in 1..Len(page.images) : page.images[k] >= 80 IN /\ (needs <=> (page.char_count < 50 /\ (Len(page.images) > 0 \/ \E k \in 1..Len(page.images) : page.images[k] > 80))) /\ (page.char_count >= 50 => ~needs) /\ ((page.char_count < 50 /\ big) => needs)

C12_Witness == ret.call = "analyze" /\ Len(ret.args) = 2 /\ ret.args[1] = Page(50, <<90>>) /\ ~ret.value.pages[1].needs_ocr /\ ret.args[2] = Page(49, <<80>>) /\ ret.value.pages[2].needs_ocr

(* a page structure returned by one of the two extraction paths *)
PageExtracted == ret.call \in {"_extract_native", "_extract_with_ocr"} /\ ret.value.raised = ""

(* C13: every element of an extracted page has its four bbox coordinates   *)
(* in 0..1000, on the native path and on the OCR path                      *)
C13_BboxInRange == PageExtracted => \A i \in 1..Len(ret.value.elements) : \A k \in 1..4 : ret.value.elements[i].bbox[k] \in 0..1000

(* C14: the elements of an extracted page are in non-decreasing order of   *)
(* (y_min, x_min) on both paths, and they are the elements collected, none *)
(* lost: a table collected after the text ends up where its box puts it    *)
C14_ReadingOrder == PageExtracted => LET es == ret.value.elements n == IF ret.call = "_extract_native" THEN Len(ret.args[1]) + Len(ret.args[2]) ELSE Len(ret.args[2]) IN /\ Len(es) = n /\ \A i \in 1..(Len(es) - 1) : es[i].bbox[2] < es[i + 1].bbox[2] \/ (es[i].bbox[2] = es[i + 1].bbox[2] /\ es[i].bbox[1] <= es[i + 1].bbox[1])

C14_Witness == ret.call = "_extract_native" /\ ret.args = << <<Block(0, <<0, 100, 50, 200>>)>>, << <<50, 0, 100, 100>> >> >> /\ Len(ret.value.elements) = 2 /\ ret.value.elements[1].type = "table" /\ ret.value.elements[2].type = "paragraph"

(* C16: get_ocr_provider returns the provider named when given a          *)
(* provider's name; given "auto" it returns mistral when the Mistral key   *)
(* is set, else deepseek when the DeepSeek key is set, else surya, which   *)
(* needs no key; it always returns a provider                              *)
C16_ProviderSelection == ret.call = "get_ocr_provider" => LET t == ret.args[1] k == ret.args[2] v == ret.value IN /\ v \in {"mistral", "deepseek", "surya"} /\ (t # "auto" => v = t) /\ ((t = "auto" /\ "mistral" \in k) => v = "mistral") /\ ((t = "auto" /\ "mistral" \notin k /\ "deepseek" \in k) => v = "deepseek") /\ ((t = "auto" /\ k = {}) => v = "surya")

C16_Witness == ret.call = "get_ocr_provider" /\ ret.args = <<"auto", {}>> /\ ret.value = "surya"

(* the pages process_image was called for in the current run on job j *)
CalledPages(j) == [i \in 1..Len(ocr_run[j].calls) |-> ocr_run[j].calls[i][1]]

(* the run on job j is over, or past its extraction *)
Extracted(j) == pc[j].runs > 0 /\ pc[j].at \in {"assemble", "docx", "done", "queued"}

(* C15: in a run, process_image is called only for pages that need OCR, in *)
(* ascending page order and at most once each; with OCR disabled or no     *)
(* page needing OCR no provider is set up and no call is made; and once    *)
(* the run is past its extraction with a provider set up and no call       *)
(* having raised, every page that needs OCR has had its call               *)
C15_OneCallPerOcrPage == \A j \in DOMAIN jobs : LET pages == CalledPages(j) doc == upload[j] IN /\ (\A i \in 1..Len(pages) : pages[i] \in doc.ocr_pages /\ (i > 1 => pages[i - 1] < pages[i])) /\ ((~jobs[j].settings.ocr_enabled \/ doc.ocr_pages = {}) => (ocr_run[j].provider = "none" /\ pages = << >>)) /\ ((Extracted(j) /\ ocr_run[j].provider # "none" /\ (\A k \in 1..Len(pages) : ocr_run[j].calls[k][2] # "raise")) => {pages[k] : k \in 1..Len(pages)} = doc.ocr_pages)

(* C17: when process_image answers a page with the result it gives for a   *)
(* garbled payload (no elements, an error note), the extraction goes on to *)
(* the next page and the job is not failed                                 *)
C17_GarbledPageIsSkipped == [][\A j \in DOMAIN jobs : (Len(ocr_run'[j].calls) = Len(ocr_run[j].calls) + 1 /\ ocr_run'[j].calls[Len(ocr_run'[j].calls)][2] = "parse_error") => (pc'[j].at = "extract" /\ pc'[j].page = pc[j].page + 1 /\ jobs'[j].status = PROCESSING)]_vars

(* C18: a cleanup sweep for a cutoff of h hours removes exactly the jobs   *)
(* that are COMPLETED, FAILED or CANCELLED and were created before now - h,*)
(* leaves every other job record as it was, and when it removed jobs it    *)
(* returns how many                                                        *)
C18_SweepRemovesExpired == [][(resp' # resp /\ resp'.op = "cleanup") => LET h == resp'.request[1] gone == {j \in DOMAIN jobs : jobs[j].status \in {COMPLETED, FAILED, CANCELLED} /\ jobs[j].created_at < now - h} IN /\ DOMAIN jobs' = DOMAIN jobs \ gone /\ (\A j \in DOMAIN jobs' : jobs'[j] = jobs[j]) /\ (gone # {} => resp'.results = <<Cardinality(gone)>>)]_vars

(* C19: creating a job stores a record with status PENDING and progress 0  *)
(* under an id that no stored job had, changes no record that was stored,  *)
(* and so makes the store exactly one job larger                           *)
C19_CreateAddsOneJob == [][(jobs' # jobs) => (\E id \in DOMAIN jobs' \ DOMAIN jobs : (jobs'[id].status = PENDING /\ jobs'[id].progress = 0 /\ (\A k \in DOMAIN jobs : (k \in DOMAIN jobs' /\ jobs'[k] = jobs[k])) /\ Cardinality(DOMAIN jobs') = Cardinality(DOMAIN jobs) + 1))]_vars

(* C20: a progress write (update_job with a progress, or the extraction's  *)
(* progress callback) that supplies a value lower than the job's stored    *)
(* progress leaves the stored progress as it was                           *)
C20_LowerProgressIsRefused == [][\A j \in DOMAIN jobs : ((ret'.call \in {"update_job", "on_progress"} /\ ret'.args[1] = j /\ ret'.args[2] < jobs[j].progress) => (j \in DOMAIN jobs' /\ jobs'[j].progress = jobs[j].progress))]_vars

(* C21: a cancel request on a PROCESSING job marks the job CANCELLED and   *)
(* leaves its pipeline run where it is (the run is not preempted and goes  *)
(* on to its final write of COMPLETED or FAILED)                           *)
C21_CancelMarksRunningJob == [][\A j \in JobIds : (Answered("cancel", j) /\ j \in DOMAIN jobs /\ jobs[j].status = PROCESSING /\ pc[j].at \in Running) => (jobs'[j].status = CANCELLED /\ pc'[j] = pc[j])]_vars
(* C22: while a run extracts, the pages_processed it has reported never    *)
(* exceeds the number of pages it has extracted (the callback for page k   *)
(* comes after page k), and the progress it has stored stays within the    *)
(* extraction window                                                       *)
C22_ReportedPagesAreExtracted == \A j \in DOMAIN jobs : (pc[j].runs = 1 /\ pc[j].at \in {"extract", "page"}) => (jobs[j].pages_processed <= pc[j].page /\ jobs[j].progress \in 20..80)
(* C23: within a run the progress written is 10 after analysis, 20 on      *)
(* entering extraction, 20 + floor(60 * p / 100) (within 20..80) for each  *)
(* callback of the extractor with its percent p, 85 on entering assembly,  *)
(* and 100 only in the write that sets COMPLETED; a step that fails        *)
(* outside the extraction writes no progress                               *)
C23_ProgressPhases == [][\A j \in DOMAIN jobs : (j \in DOMAIN jobs' /\ j \in disk /\ pc[j].at \in Running /\ pc'[j] # pc[j]) => LET n == upload[j].npages old == jobs[j].progress new == jobs'[j].progress failed == pc'[j].result = "failure" IN /\ ((pc[j].at = "analyze" /\ ~failed) => new = 10) /\ ((pc[j].at = "setup" /\ ~failed) => new = 20) /\ ((pc[j].at = "extract" /\ pc[j].page < n) => (new = 20 + (60 * PagePercent(pc[j].page, n)) \div 100 /\ new \in 20..80)) /\ ((pc[j].at = "extract" /\ pc[j].page = n) => new = 80) /\ (pc[j].at = "assemble" => new = 85) /\ (new = 100 <=> (pc[j].at = "docx" /\ jobs'[j].status = COMPLETED)) /\ ((failed /\ pc[j].at # "extract") => new = old)]_vars

C23_Witness == \E j \in DOMAIN jobs : pc[j].at = "assemble" /\ jobs[j].progress = 80 /\ jobs[j].pages_processed = SmallPages
(* C24: a job whose run has started (status PROCESSING) eventually has     *)
(* status COMPLETED or FAILED, unless it is deleted, whatever the runs of  *)
(* the other jobs do                                                       *)
C24_RunsTerminate == \A j \in JobIds : (j \in DOMAIN jobs /\ jobs[j].status = PROCESSING) ~> (j \notin DOMAIN jobs \/ jobs[j].status \in {COMPLETED, FAILED})

C24_Witness == \E j \in DOMAIN jobs, k \in DOMAIN jobs : pc[j].at = "done" /\ jobs[j].status = FAILED /\ pc[k].at = "done" /\ jobs[k].status = COMPLETED
(* C25: an update_job call that sets status COMPLETED or FAILED sets       *)
(* completed_at to the time of the call in the same step; a call that sets *)
(* no status, or PROCESSING, leaves completed_at as it was; so every       *)
(* COMPLETED or FAILED job has completed_at set                            *)
C25_TerminalIsStamped == [][(\A j \in DOMAIN jobs : (now' # now /\ ret'.call = "update_job" /\ ret'.args[1] = j) => (jobs'[j].completed_at = IF ret'.args[2].status \in {Some(COMPLETED), Some(FAILED)} THEN Some(now') ELSE jobs[j].completed_at)) /\ (\A k \in DOMAIN jobs' : jobs'[k].status \in {COMPLETED, FAILED} => jobs'[k].completed_at # None)]_vars

C25_Witness == \E j \in DOMAIN jobs : jobs[j].status = PROCESSING /\ jobs[j].completed_at = Some(1) /\ now = MaxTime /\ ret.call = "update_job" /\ ret.args = <<j, Kw(Some(PROCESSING), None, None)>>
(* C26: when a valid upload whose page count fails has been saved, its job *)
(* record is created (PENDING) and no error is answered; its handler does  *)
(* not run the pipeline inline but queues it and answers PENDING; and the  *)
(* pipeline runs at most once on it                                        *)
C26_CountFailureQueues == [][/\ ((nextId' = nextId + 1 /\ nextId' \in JobIds /\ upload'[nextId'].corrupt) => (nextId' \in DOMAIN jobs' /\ jobs'[nextId'].status = PENDING /\ resp' = resp)) /\ (\A j \in DOMAIN jobs : (upload[j].corrupt /\ pc[j].at = "created" /\ pc'[j] # pc[j]) => (pc'[j].at = "queued" /\ pc'[j].runs = 0 /\ reply'[j].status = Some(PENDING) /\ jobs'[j] = jobs[j])) /\ (\A j \in DOMAIN jobs' : upload'[j].corrupt => pc'[j].runs <= 1)]_vars
(* the texts of Texts that start with a bullet glyph, and those whose      *)
(* first three characters (fewer for a shorter text), once "." and ")" are *)
(* removed, are one or more digits                                         *)
BulletTexts == {<<"U+2022", " ", "a">>, <<"-", "a">>, <<" ", "*">>}

NumberedTexts == {<<"7">>, <<"1", "2", ")">>, <<"1", "2", "3", "4">>}

C28_DeletedStaysDeleted == [][\A j \in JobIds : /\ ((j \notin DOMAIN jobs /\ pc[j].at # "free") => j \notin DOMAIN jobs') /\ ((j \in DOMAIN jobs /\ j \notin DOMAIN jobs') => (pc' = pc /\ j \notin disk' /\ \A k \in DOMAIN jobs \ {j} : (k \in DOMAIN jobs' /\ jobs'[k] = jobs[k]))) /\ ((j \notin DOMAIN jobs /\ pc[j].at # "free" /\ pc'[j] # pc[j]) => jobs' = jobs) /\ ((j \notin DOMAIN jobs /\ pc[j].at \in Running /\ pc'[j].at \notin Running) => pc'[j].result \in {"success", "failure"})]_vars

C28_Witness == \E j \in JobIds, k \in DOMAIN jobs : j \notin DOMAIN jobs /\ pc[j].at = "docx" /\ jobs[k].status = PROCESSING
(* C29: a job whose status is COMPLETED has progress 100, an output path,  *)
(* a download URL and the pages_total the analysis counted                 *)
C29_CompletedIsWhole == \A j \in DOMAIN jobs : jobs[j].status = COMPLETED => (jobs[j].progress = 100 /\ jobs[j].output_path # None /\ jobs[j].download_url # None /\ jobs[j].pages_total = Some(upload[j].npages))

C29_Witness == \E j \in DOMAIN jobs : jobs[j].status = COMPLETED /\ pc[j].runs = 2 /\ jobs[j].output_path = Some(<<"output", j>>)
(* C30: update_job on an id that is not in the store returns None and      *)
(* leaves the store as it was; on a stored job it returns the job and      *)
(* changes only the fields named by a keyword whose value is not None and  *)
(* which the record has (and completed_at when the status set is COMPLETED *)
(* or FAILED): every other field, every other job and the set of stored    *)
(* ids stay as they were                                                   *)
C30_UpdateFrame == [][(now' # now /\ ret'.call = "update_job") => LET id == ret'.args[1] kw == ret'.args[2] IN IF id \notin DOMAIN jobs THEN ret'.value = None /\ jobs' = jobs ELSE /\ ret'.value # None /\ DOMAIN jobs' = DOMAIN jobs /\ (\A k \in DOMAIN jobs \ {id} : jobs'[k] = jobs[k]) /\ DOMAIN jobs'[id] = DOMAIN jobs[id] /\ (\A f \in DOMAIN jobs[id] : IF f \in DOMAIN kw /\ kw[f] # None THEN jobs'[id][f] = kw[f][1] ELSE IF f = "completed_at" /\ kw.status \in {Some(COMPLETED), Some(FAILED)} THEN jobs'[id][f] # None ELSE jobs'[id][f] = jobs[id][f])]_vars

C30_Witness == ret.call = "update_job" /\ ret.args[1] \notin DOMAIN jobs /\ ret.value = None /\ \E k \in DOMAIN jobs : jobs[k].status = COMPLETED /\ jobs[k].progress = 100
=============================================================================
